---- MODULE Spec2Model ----
(***************************************************************************)
(* Model of the interaction webhook of miniroll-discord                    *)
(* (src/unnamed/part_002): home, the detached handleCommand continuation,  *)
(* the roll / sync / spell handlers and the per-user sheet cache (Deno KV).*)
(*                                                                         *)
(* Every request r runs home as a sequence of steps separated by the       *)
(* awaits of the code; the handler task started by home runs detached.     *)
(* The server writes home's returned Response to the client in a step of   *)
(* its own (HttpSend).  Steps of different requests interleave freely.     *)
(*                                                                         *)
(* Spec is that system for MaxReqs requests.  AckSpec and FairSpec follow  *)
(* one request on any cache, with the whole command recorded; BotSpec is   *)
(* the cache path of the earlier handler, src/bot.ts; StringifySpec        *)
(* applies stringifyCalculation to calculation trees.                      *)
(***************************************************************************)
EXTENDS Integers, Sequences, FiniteSets, TLC

\* ------------------------------------------------------------- bounds
MaxReqs == 2          \* requests handled concurrently
MaxHits == 2          \* fuzzy hits the spell service returns at most

Reqs == 1..MaxReqs
Users == {"u1", "u2"}
SheetIds == {"s1", "s2"}
StatSets == {"st1", "st2"}      \* two different stats mappings a sheet can carry
AllSpellIds == <<"fireball", "firebolt", "fire-storm">>
SpellIds == {AllSpellIds[i] : i \in 1..(IF MaxHits < 3 THEN MaxHits ELSE 3)}

Min(a, b) == IF a < b THEN a ELSE b

\* ------------------------------------------------------------- constants of the code
PING == 1                     \* interaction type 1
APPLICATION_COMMAND == 2      \* interaction type 2
CHAT_INPUT == 1               \* data.type of a slash command
OPT_STRING == 3               \* option type 3
OPT_BOOLEAN == 5              \* option type 5
ShortTokenLen == 8            \* token.slice(0, 8)
Ephemeral == 64               \* MessageFlags.Ephemeral
IsComponentsV2 == 32768       \* MessageFlags.IsComponentsV2

\* ------------------------------------------------------------- values
Null == [k |-> "null"]                 \* JS null / undefined result
Absent == [type |-> 0, value |-> ""]   \* options.find(...) === undefined
NoOpts == [whisper |-> Absent, dice |-> Absent, id |-> Absent, name |-> Absent]

\* The one-time token of request r's interaction.  Tokens differ between
\* interactions; the two of the model share their first eight characters.
Token(r) == "tok3nAbC" \o ToString(r)

\* token.slice(0, 8)
ShortToken(token) == SubSeq(token, 1, Min(ShortTokenLen, Len(token)))

\* ------------------------------------------------------------- signature check
\* Header values of X-Signature-Ed25519 a request may carry ("-" : header missing).
Missing == "-"
GoodSigHex == "0b0c"
SigHeaders == {Missing, "", "0b", "0b0d", "0bzc", GoodSigHex}

HexDigit(c) ==
  CASE c = "0" -> 0 [] c = "1" -> 1 [] c = "2" -> 2 [] c = "3" -> 3
    [] c = "4" -> 4 [] c = "5" -> 5 [] c = "6" -> 6 [] c = "7" -> 7
    [] c = "8" -> 8 [] c = "9" -> 9 [] c = "a" -> 10 [] c = "b" -> 11
    [] c = "c" -> 12 [] c = "d" -> 13 [] c = "e" -> 14 [] c = "f" -> 15
    [] OTHER -> -1

\* parseInt(val, 16) of a chunk of one or two characters, stored in a
\* Uint8Array: NaN is stored as 0; parseInt stops at the first non-digit.
ParseByte(val) ==
  LET a == HexDigit(SubSeq(val, 1, 1))
      b == IF Len(val) = 2 THEN HexDigit(SubSeq(val, 2, 2)) ELSE -1
  IN IF a = -1 THEN 0 ELSE IF b = -1 THEN a ELSE 16 * a + b

\* hexToUint8Array: hex.match(/.{1,2}/g)!.map(parseInt 16).
hexToUint8Array(hex) ==
  [i \in 1..((Len(hex) + 1) \div 2) |->
     ParseByte(SubSeq(hex, 2 * i - 1, Min(2 * i, Len(hex))))]

\* On the empty string hex.match(...) is null and the non-null assertion
\* does nothing at run time: .map on null throws a TypeError.
hexThrows(hex) == Len(hex) = 0

\* The detached signature of the request's timestamp || body under the
\* configured public key (two bytes stand for the 64 of Ed25519).
ExpectedSig == <<11, 12>>
SigBytes == Len(ExpectedSig)

\* nacl.sign.detached.verify(msg, sig, publicKey): throws "bad signature
\* size" on a signature of the wrong length, else tells whether it verifies.
naclVerify(sig) ==
  IF Len(sig) # SigBytes THEN "throw"
  ELSE IF sig = ExpectedSig THEN "valid" ELSE "invalid"

\* verifySignature(request): "throw", "valid" or "invalid".
verifySignature(sigHex) ==
  IF hexThrows(sigHex) THEN "throw" ELSE naclVerify(hexToUint8Array(sigHex))

\* ------------------------------------------------------------- responses of home
NoResp == [status |-> 0, type |-> 0, content |-> "", flags |-> 0]

\* reject(message, status = 400)
reject(status) == [status |-> status, type |-> 0, content |-> "", flags |-> 0]

\* a ping answered with type 4, the type of the deferred ack
PingAckDeferred == [status |-> 200, type |-> 4, content |-> "", flags |-> 0]

\* json({ type: 1 })
PingAck == [status |-> 200, type |-> PING, content |-> "", flags |-> 0]

\* response(content, ephemeral, components)
response(content, ephemeral, components) ==
  [status |-> 200, type |-> 4, content |-> content,
   flags |-> (IF ephemeral THEN Ephemeral ELSE 0)
             + (IF components THEN IsComponentsV2 ELSE 0)]

\* ------------------------------------------------------------- interactions
Opt(t, v) == [type |-> t, value |-> v]

WhisperOpts == {Absent, Opt(OPT_BOOLEAN, "true"), Opt(OPT_BOOLEAN, "false"),
                Opt(OPT_STRING, "yes")}
DiceOpts == {Absent, Opt(OPT_STRING, "1d20+str"), Opt(4, "20")}
IdOpts == {Absent, Opt(4, "7")} \cup {Opt(OPT_STRING, s) : s \in SheetIds}
NameOpts == {Absent, Opt(OPT_STRING, "fire"), Opt(OPT_BOOLEAN, "true")}
CommandNames == {"roll", "r", "sync", "spell", "help"}

\* options of a command, as data.options?.find((o) => o.name === n) sees them
OptionsOf(name) ==
  {[whisper |-> w, dice |-> d, id |-> i, name |-> n] :
     w \in WhisperOpts,
     d \in (IF name \in {"roll", "r"} THEN DiceOpts ELSE {Absent}),
     i \in (IF name = "sync" THEN IdOpts ELSE {Absent}),
     n \in (IF name = "spell" THEN NameOpts ELSE {Absent})}

NoData == [type |-> 0, name |-> "", options |-> NoOpts]

\* The payloads a verified body parses to: a ping, a component interaction
\* (type 3), commands without an invoking user or of another subtype, and
\* slash commands.
Interactions ==
  {[type |-> PING, user |-> "", data |-> NoData],
   [type |-> 3, user |-> "u1", data |-> NoData],
   [type |-> APPLICATION_COMMAND, user |-> "",
    data |-> [type |-> CHAT_INPUT, name |-> "roll", options |-> NoOpts]],
   [type |-> APPLICATION_COMMAND, user |-> "u1",
    data |-> [type |-> 2, name |-> "roll", options |-> NoOpts]]}
  \cup
  UNION {{[type |-> APPLICATION_COMMAND, user |-> u,
           data |-> [type |-> CHAT_INPUT, name |-> n, options |-> o]] :
            u \in Users, o \in OptionsOf(n)} : n \in CommandNames}

\* ------------------------------------------------------------- upstream services
Sheets == [id : SheetIds, stats : StatSets]

\* What the sheet service answers to GET /api/characters/<sid>: the fetch
\* rejects, a non-success status, or a sheet.
SheetResponses ==
  {[k |-> "neterr", sheet |-> Null], [k |-> "notok", sheet |-> Null]}
  \cup {[k |-> "ok", sheet |-> sh] : sh \in Sheets}

RECURSIVE Perms(_)
\* the sequences listing every element of S once
Perms(S) ==
  IF S = {} THEN {<<>>}
  ELSE UNION {{<<x>> \o p : p \in Perms(S \ {x})} : x \in S}

\* data.spells: up to MaxHits spells with distinct ids, in the service's order
HitLists == UNION {Perms(S) : S \in {T \in SUBSET SpellIds : Cardinality(T) <= MaxHits}}

\* What the spell service answers to the GraphQL POST: the fetch rejects, a
\* non-success status, or data {spell, spells}; spell, the exact-id hit, is
\* null (written "") or the spell whose id the search term is.
ExactHits == {"", AllSpellIds[1]}
SpellResponses ==
  {[k |-> "neterr", spell |-> "", spells |-> <<>>],
   [k |-> "notok", spell |-> "", spells |-> <<>>]}
  \cup {[k |-> "ok", spell |-> e, spells |-> l] : e \in ExactHits, l \in HitLists}

NoNet == [k |-> "none"]

\* ------------------------------------------------------------- follow-ups
FollowUp(content, embeds, components) ==
  [content |-> content, embeds |-> embeds, components |-> components]
Content(text) == FollowUp(text, <<>>, <<>>)
TextDisplay(text) == [type |-> 10, content |-> text, customId |-> ""]
Button(customId) == [type |-> 2, content |-> "", customId |-> customId]
ImageEmbed(id) == "https://fivee.co/snippets/spell-card/" \o id

NoDiceMsg == Content("No dice notation given.")
SyncFailedIdMsg ==
  Content("Failed to sync. Are you sure the ID is correct and the sheet is public?")
SyncFailedNoIdMsg ==
  Content("Failed to sync. Make sure your sheet still exists and is public.")
SyncedMsg(sheet) == Content("Synced character " \o sheet.id)
InvalidArgsMsg == Content("Invalid command arguments.")
SpellFetchFailedMsg == FollowUp("", <<>>, <<TextDisplay("Failed to fetch spell data.")>>)
SpellUnexpectedMsg ==
  FollowUp("", <<>>, <<TextDisplay("Unexpected error fetching spell data.")>>)
SpellNotFoundMsg ==
  FollowUp("", <<>>, <<TextDisplay("Couldn't find a spell with that name or ID.")>>)
\* the evaluator's result for the variables data (the sheet's stats, "" : none)
RollMsg(data) == Content("### result with variables [" \o data \o "]")
RollDiagnosticMsg == Content("diff - parse error")
RollUnexpectedMsg == Content("An unexpected error ocurred.")

\* what a task has not produced yet, and the marker of a rejected promise
Pending == [k |-> "pending"]
Threw == [k |-> "threw"]

\* ------------------------------------------------------------- state
VARIABLES
  hpc,       \* hpc[r]: where home(request r) stands
  req,       \* req[r]: method and headers of request r
  resp,      \* resp[r]: the Response home returned
  sent,      \* sent[r]: the server has written resp[r] to the client
  parsed,    \* parsed[r]: JSON.parse(body) ran
  cmd,       \* cmd[r]: arguments of the handleCommand call home made
  tpc,       \* tpc[r]: where the detached handleCommand(...).then(...) chain stands
  sid,       \* sid[r]: sheet id of the sheet GET in flight
  net,       \* net[r]: upstream response delivered to r and not yet consumed
  followUp,  \* followUp[r]: what handleCommand's promise settled with
  patched,   \* patched[r]: bodies PATCHed to .../<token of r>/messages/@original
  calls,     \* calls[r]: calls made on behalf of r
  log,       \* log[r]: outcome logged by the follow-up chain
  kv,        \* kv[u]: value stored under ["syncedSheet", u]
  calculation, \* a calculation tree of the evaluator
  numbers    \* the texts stringifyCalculation returned for calculation, in order

vars == <<hpc, req, resp, sent, parsed, cmd, tpc, sid, net, followUp, patched,
          calls, log, kv, calculation, numbers>>

NoReq == [method |-> "", sig |-> Missing, ts |-> FALSE, kind |-> 0]
NoCmd == [name |-> "", uid |-> "", options |-> NoOpts]
NoCalls == [get |-> 0, post |-> 0, kvGet |-> 0, kvSet |-> 0]
NoCalc == [kind |-> "none"]

Init ==
  /\ hpc = [r \in Reqs |-> "idle"]
  /\ req = [r \in Reqs |-> NoReq]
  /\ resp = [r \in Reqs |-> NoResp]
  /\ sent = [r \in Reqs |-> FALSE]
  /\ parsed = [r \in Reqs |-> FALSE]
  /\ cmd = [r \in Reqs |-> NoCmd]
  /\ tpc = [r \in Reqs |-> "none"]
  /\ sid = [r \in Reqs |-> ""]
  /\ net = [r \in Reqs |-> NoNet]
  /\ followUp = [r \in Reqs |-> Pending]
  /\ patched = [r \in Reqs |-> <<>>]
  /\ calls = [r \in Reqs |-> NoCalls]
  /\ log = [r \in Reqs |-> ""]
  /\ kv = [u \in Users |-> Null]
  /\ calculation = NoCalc
  /\ numbers = <<>>

\* ------------------------------------------------------------- handlers
\* A handler's progress: pc "resolved" / "rejected" (its promise settled with
\* fu), or the call it awaits: "kvget", "sheet" (GET of sheet s), "spell".
At(pc, fu, s) == [pc |-> pc, fu |-> fu, sid |-> s]
Resolved(fu) == At("resolved", fu, "")
Rejected == At("rejected", Threw, "")

\* handleRollCommand up to its first await
handleRollCommand(options) ==
  LET dice == options.dice
  IN IF dice = Absent THEN Resolved(NoDiceMsg)
     ELSE IF dice.type # OPT_STRING THEN Resolved(Null)
     ELSE At("kvget", Pending, "")

\* handleSyncCommand up to its first await
handleSyncCommand(options) ==
  LET sidOpt == options.id
  IN IF sidOpt # Absent /\ sidOpt.type # OPT_STRING THEN Resolved(Null)
     ELSE IF sidOpt = Absent THEN At("kvget", Pending, "")
     ELSE At("sheet", Pending, sidOpt.value)

\* handleSpellCommand up to its first await
handleSpellCommand(options) ==
  LET searchTermOpt == options.name
  IN IF searchTermOpt = Absent \/ searchTermOpt.type # OPT_STRING
     THEN Resolved(InvalidArgsMsg)
     ELSE At("spell", Pending, "")

\* handleCommand: the switch on the command's name
handleCommand(name, options) ==
  CASE name \in {"roll", "r"} -> handleRollCommand(options)
    [] name = "sync" -> handleSyncCommand(options)
    [] name = "spell" -> handleSpellCommand(options)
    [] OTHER -> Resolved(Null)

\* the calls a handler that stands at at has just made
CallsFor(c, at) ==
  [c EXCEPT !.kvGet = @ + (IF at.pc = "kvget" THEN 1 ELSE 0),
            !.get = @ + (IF at.pc = "sheet" THEN 1 ELSE 0),
            !.post = @ + (IF at.pc = "spell" THEN 1 ELSE 0)]

\* roll(dice.value, { data }) and the rendering of its result; outcome is
\* what the external evaluator does with the expression.
EvalOutcomes == {"ok", "error", "thrown"}
rollResult(sheet, outcome) ==
  LET data == IF sheet = Null THEN "" ELSE sheet.stats
  IN CASE outcome = "ok" -> RollMsg(data)
       [] outcome = "error" -> RollDiagnosticMsg
       [] OTHER -> RollUnexpectedMsg

RECURSIVE stringifyCalculationParens(_)
\* stringifyCalculation with each binary operand put in parentheses
stringifyCalculationParens(calc) ==
  CASE calc.kind = "num" -> ToString(calc.value)
    [] calc.kind = "ident" -> ToString(calc.value)
    [] calc.kind = "roll" -> calc.intermediateText
    [] OTHER ->
       LET wrap(c) == IF c.kind = "binary"
                      THEN "(" \o stringifyCalculationParens(c) \o ")"
                      ELSE stringifyCalculationParens(c)
       IN wrap(calc.intermediate.lhs) \o " " \o calc.intermediate.op \o " "
          \o wrap(calc.intermediate.rhs)

RECURSIVE stringifyCalculation(_)
\* stringifyCalculation: `${calc.value}` of a num or ident node, the
\* intermediateText of a roll node, lhs + " " + op + " " + rhs of a binary node
stringifyCalculation(calc) ==
  CASE calc.kind = "num" -> ToString(calc.value)
    [] calc.kind = "ident" -> ToString(calc.value)
    [] calc.kind = "roll" -> calc.intermediateText
    [] OTHER ->
       LET lhs == stringifyCalculation(calc.intermediate.lhs)
           rhs == stringifyCalculation(calc.intermediate.rhs)
       IN lhs \o " " \o calc.intermediate.op \o " " \o rhs

\* syncResult with the two failure messages told apart the wrong way round
syncResultSwapped(options, sheet) ==
  IF sheet = Null
  THEN (IF options.id = Absent THEN SyncFailedIdMsg ELSE SyncFailedNoIdMsg)
  ELSE SyncedMsg(sheet)

\* handleSyncCommand from the sheet it awaited on
syncResult(options, sheet) ==
  IF sheet = Null
  THEN (IF options.id # Absent THEN SyncFailedIdMsg ELSE SyncFailedNoIdMsg)
  ELSE SyncedMsg(sheet)

\* the handler of command c from the sheet it awaited on
afterSheet(c, sheet, outcome) ==
  IF c.name = "sync" THEN Resolved(syncResult(c.options, sheet))
  ELSE Resolved(rollResult(sheet, outcome))

\* data.spell ?? (data.spells.length === 0 ? data.spells[0] : null)
Undefined == [k |-> "undefined"]
pickSpell(data) ==
  IF data.spell # "" THEN [k |-> "spell", id |-> data.spell]
  ELSE IF Len(data.spells) = 0 THEN Undefined
  ELSE Null

\* customId without the candidate's id
customIdTokenOnly(shortToken, id) == "btn-" \o shortToken

\* customId: btn-${shortToken}-${spell.id}
customId(shortToken, id) == "btn-" \o shortToken \o "-" \o id

\* the disambiguation message of handleSpellCommand
whichSpell(spells, shortToken) ==
  FollowUp("Which spell?", <<>>,
           <<TextDisplay("Which spell?")>>
           \o [i \in 1..Len(spells) |-> Button(customId(shortToken, spells[i]))])

\* handleSpellCommand from the service's response on
spellResult(res, shortToken) ==
  CASE res.k = "neterr" -> Resolved(SpellUnexpectedMsg)
    [] res.k = "notok" -> Resolved(SpellFetchFailedMsg)
    [] OTHER ->
       LET spell == pickSpell(res)
       IN IF spell # Null
          THEN (IF spell = Undefined THEN Rejected   \* spell.id of undefined
                ELSE Resolved(FollowUp("", <<ImageEmbed(spell.id)>>, <<>>)))
          ELSE IF Len(res.spells) = 0 THEN Resolved(SpellNotFoundMsg)
          ELSE Resolved(whichSpell(res.spells, shortToken))

\* ------------------------------------------------------------- home
\* validateRequest(request, {POST: {headers: [...]}}): a request that is not
\* a POST or lacks one of the two headers is answered with error.status.
validateRequest(q) ==
  IF q.method # "POST" \/ q.sig = Missing \/ ~q.ts THEN 400 ELSE 0

\* kind is the type of the interaction in the body, 0 until home has parsed it
Requests == [method : {"POST", "GET"}, sig : SigHeaders, ts : BOOLEAN, kind : {0}]

\* home, lines 57-64: a request arrives and is validated
HomeValidate(r) ==
  /\ hpc[r] = "idle"
  /\ IF r = 1 THEN TRUE ELSE hpc[r - 1] # "idle"
  /\ \E q \in Requests :
       /\ req' = [req EXCEPT ![r] = q]
       /\ IF validateRequest(q) # 0
          THEN /\ hpc' = [hpc EXCEPT ![r] = "returned"]
               /\ resp' = [resp EXCEPT ![r] = reject(validateRequest(q))]
          ELSE /\ hpc' = [hpc EXCEPT ![r] = "verify"]
               /\ UNCHANGED resp
  /\ UNCHANGED <<sent, parsed, cmd, tpc, sid, net, followUp, patched, calls, log, kv>>
  /\ UNCHANGED <<calculation, numbers>>

\* home, lines 66-69: the signature is verified
HomeVerify(r) ==
  /\ hpc[r] = "verify"
  /\ LET v == verifySignature(req[r].sig)
     IN CASE v = "throw" ->
               /\ hpc' = [hpc EXCEPT ![r] = "threw"]
               /\ UNCHANGED resp
          [] v = "invalid" ->
               /\ hpc' = [hpc EXCEPT ![r] = "returned"]
               /\ resp' = [resp EXCEPT ![r] = reject(401)]
          [] OTHER ->
               /\ hpc' = [hpc EXCEPT ![r] = "route"]
               /\ UNCHANGED resp
  /\ UNCHANGED <<req, sent, parsed, cmd, tpc, sid, net, followUp, patched, calls, log, kv>>
  /\ UNCHANGED <<calculation, numbers>>

\* the placeholder of the deferred ack
WorkingOnIt == "-# _Working on it..._"

\* ackOrReject with a sync that is private only when whispered
ackOrRejectWhisperOnly(data) ==
  LET whisperOpt == data.options.whisper
      whisper == whisperOpt.value = "true"
  IN IF whisperOpt # Absent /\ whisperOpt.type # OPT_BOOLEAN THEN reject(400)
     ELSE response(WorkingOnIt, whisper, data.name = "spell")

\* the whisper check and the deferred ack of home, lines 126-135
ackOrReject(data) ==
  LET whisperOpt == data.options.whisper
      whisper == whisperOpt.value = "true"
  IN IF whisperOpt # Absent /\ whisperOpt.type # OPT_BOOLEAN THEN reject(400)
     ELSE response(WorkingOnIt, whisper \/ data.name = "sync", data.name = "spell")

\* The options as the handlers see them: they look up dice, id and name only.
HandlerOptions(options) == [options EXCEPT !.whisper = Absent]

\* Users are interchangeable: the user of the first command is called u1.
FirstUser(u) == u = "u1" \/ \E q \in Reqs : cmd[q] # NoCmd

\* home, lines 71-138: the body is parsed and routed; for a command the
\* handler is started (it runs to its first await) and home returns.  The
\* command is recorded with the options as received (whole) or as the
\* handlers see them.
HomeRouteWith(r, whole) ==
  /\ hpc[r] = "route"
  /\ hpc' = [hpc EXCEPT ![r] = "returned"]
  /\ parsed' = [parsed EXCEPT ![r] = TRUE]
  /\ \E i \in Interactions :
       /\ req' = [req EXCEPT ![r].kind = i.type]
       /\ CASE i.type = PING ->
                 /\ resp' = [resp EXCEPT ![r] = PingAck]
                 /\ UNCHANGED <<cmd, tpc, sid, followUp, calls>>
            [] i.type = APPLICATION_COMMAND /\ i.user = "" ->
                 /\ resp' = [resp EXCEPT ![r] = reject(400)]
                 /\ UNCHANGED <<cmd, tpc, sid, followUp, calls>>
            [] i.type = APPLICATION_COMMAND /\ i.user # "" /\ i.data.type # CHAT_INPUT ->
                 /\ resp' = [resp EXCEPT ![r] = reject(400)]
                 /\ UNCHANGED <<cmd, tpc, sid, followUp, calls>>
            [] i.type = APPLICATION_COMMAND /\ i.user # "" /\ i.data.type = CHAT_INPUT ->
                 LET at == handleCommand(i.data.name, i.data.options)
                 IN /\ FirstUser(i.user)
                    /\ cmd' = [cmd EXCEPT ![r] = [name |-> i.data.name, uid |-> i.user,
                                                  options |-> IF whole THEN i.data.options
                                                             ELSE HandlerOptions(i.data.options)]]
                    /\ tpc' = [tpc EXCEPT ![r] = at.pc]
                    /\ sid' = [sid EXCEPT ![r] = at.sid]
                    /\ followUp' = [followUp EXCEPT ![r] = at.fu]
                    /\ calls' = [calls EXCEPT ![r] = CallsFor(@, at)]
                    /\ resp' = [resp EXCEPT ![r] = ackOrReject(i.data)]
            [] OTHER ->
                 /\ resp' = [resp EXCEPT ![r] = reject(400)]
                 /\ UNCHANGED <<cmd, tpc, sid, followUp, calls>>
  /\ UNCHANGED <<sent, net, patched, log, kv>>
  /\ UNCHANGED <<calculation, numbers>>

\* home with the options recorded as the handlers see them
HomeRoute(r) == HomeRouteWith(r, FALSE)

\* home with the options recorded as received
HomeRouteFull(r) == HomeRouteWith(r, TRUE)

\* serve, lines 34-36: the server writes the Response home returned.  (What
\* the server answers when home's promise rejects is the serving library's
\* business and is not modelled: such a request stays unanswered here.)
HttpSend(r) ==
  /\ hpc[r] = "returned"
  /\ ~sent[r]
  /\ sent' = [sent EXCEPT ![r] = TRUE]
  /\ UNCHANGED <<hpc, req, resp, parsed, cmd, tpc, sid, net, followUp, patched, calls, log, kv>>
  /\ UNCHANGED <<calculation, numbers>>

\* ------------------------------------------------------------- the detached task
\* the handler of r moves to at
Move(r, at) ==
  /\ tpc' = [tpc EXCEPT ![r] = at.pc]
  /\ sid' = [sid EXCEPT ![r] = at.sid]
  /\ followUp' = [followUp EXCEPT ![r] = at.fu]

\* getSyncedSheetForUser, lines 245-248: the kv.get issued when the handler
\* started reads the entry and returns
KvGetReturns(r) ==
  /\ tpc[r] = "kvget"
  /\ LET doc == kv[cmd[r].uid]
     IN IF doc = Null
        THEN /\ \E o \in EvalOutcomes : Move(r, afterSheet(cmd[r], Null, o))
             /\ UNCHANGED calls
        ELSE /\ Move(r, At("sheet", Pending, doc.id))
             /\ calls' = [calls EXCEPT ![r].get = @ + 1]
  /\ UNCHANGED <<hpc, req, resp, sent, parsed, cmd, net, patched, log, kv>>
  /\ UNCHANGED <<calculation, numbers>>

\* the sheet service answers the GET of line 256
SheetResponds(r) ==
  /\ tpc[r] = "sheet"
  /\ net[r] = NoNet
  /\ \E res \in SheetResponses : net' = [net EXCEPT ![r] = res]
  /\ UNCHANGED <<hpc, req, resp, sent, parsed, cmd, tpc, sid, followUp, patched, calls, log, kv>>
  /\ UNCHANGED <<calculation, numbers>>

\* SheetReturns with the sheet stored under a key that leaves out the user
SheetReturnsSharedKey(r) ==
  /\ tpc[r] = "sheet"
  /\ net[r] # NoNet
  /\ net' = [net EXCEPT ![r] = NoNet]
  /\ IF net[r].k = "ok"
     THEN /\ kv' = [u \in Users |-> net[r].sheet]
          /\ calls' = [calls EXCEPT ![r].kvSet = @ + 1]
          /\ \E o \in EvalOutcomes : Move(r, afterSheet(cmd[r], net[r].sheet, o))
     ELSE /\ UNCHANGED <<kv, calls>>
          /\ \E o \in EvalOutcomes : Move(r, afterSheet(cmd[r], Null, o))
  /\ UNCHANGED <<hpc, req, resp, sent, parsed, cmd, patched, log>>
  /\ UNCHANGED <<calculation, numbers>>

\* SheetReturns with a GET that is issued again (up to twice) when it failed
SheetReturnsRetry(r) ==
  /\ tpc[r] = "sheet"
  /\ net[r] # NoNet
  /\ net' = [net EXCEPT ![r] = NoNet]
  /\ IF net[r].k = "ok"
     THEN /\ kv' = [kv EXCEPT ![cmd[r].uid] = net[r].sheet]
          /\ calls' = [calls EXCEPT ![r].kvSet = @ + 1]
          /\ \E o \in EvalOutcomes : Move(r, afterSheet(cmd[r], net[r].sheet, o))
     ELSE IF calls[r].get < 3
     THEN /\ calls' = [calls EXCEPT ![r].get = @ + 1]
          /\ UNCHANGED <<kv, tpc, sid, followUp>>
     ELSE /\ UNCHANGED <<kv, calls>>
          /\ \E o \in EvalOutcomes : Move(r, afterSheet(cmd[r], Null, o))
  /\ UNCHANGED <<hpc, req, resp, sent, parsed, cmd, patched, log>>
  /\ UNCHANGED <<calculation, numbers>>

\* syncSheetForUser, lines 257-267, and the handler that awaited it.  The
\* step stands at the moment kv.set takes effect: the response was drawn by
\* SheetResponds, and nothing between its arrival and the write is visible
\* to another request.
SheetReturns(r) ==
  /\ tpc[r] = "sheet"
  /\ net[r] # NoNet
  /\ net' = [net EXCEPT ![r] = NoNet]
  /\ IF net[r].k = "ok"
     THEN /\ kv' = [kv EXCEPT ![cmd[r].uid] = net[r].sheet]
          /\ calls' = [calls EXCEPT ![r].kvSet = @ + 1]
          /\ \E o \in EvalOutcomes : Move(r, afterSheet(cmd[r], net[r].sheet, o))
     ELSE /\ UNCHANGED <<kv, calls>>
          /\ \E o \in EvalOutcomes : Move(r, afterSheet(cmd[r], Null, o))
  /\ UNCHANGED <<hpc, req, resp, sent, parsed, cmd, patched, log>>
  /\ UNCHANGED <<calculation, numbers>>

\* the spell service answers the POST of line 282
SpellResponds(r) ==
  /\ tpc[r] = "spell"
  /\ net[r] = NoNet
  /\ \E res \in SpellResponses : net' = [net EXCEPT ![r] = res]
  /\ UNCHANGED <<hpc, req, resp, sent, parsed, cmd, tpc, sid, followUp, patched, calls, log, kv>>
  /\ UNCHANGED <<calculation, numbers>>

\* handleSpellCommand, lines 304-364
SpellReturns(r) ==
  /\ tpc[r] = "spell"
  /\ net[r] # NoNet
  /\ net' = [net EXCEPT ![r] = NoNet]
  /\ Move(r, spellResult(net[r], ShortToken(Token(r))))
  /\ UNCHANGED <<hpc, req, resp, sent, parsed, cmd, patched, calls, log, kv>>
  /\ UNCHANGED <<calculation, numbers>>

\* home, lines 101-114: the first .then callback issues the PATCH with
\* JSON.stringify(followUp) as its body, whatever followUp is
ThenFollowUp(r) ==
  /\ tpc[r] = "resolved"
  /\ tpc' = [tpc EXCEPT ![r] = "patch"]
  /\ patched' = [patched EXCEPT ![r] = Append(@, followUp[r])]
  /\ UNCHANGED <<hpc, req, resp, sent, parsed, cmd, sid, net, followUp, calls, log, kv>>
  /\ UNCHANGED <<calculation, numbers>>

\* CatchRejection that swallows the rejection without logging it
CatchRejectionSilent(r) ==
  /\ tpc[r] = "rejected"
  /\ tpc' = [tpc EXCEPT ![r] = "done"]
  /\ UNCHANGED <<hpc, req, resp, sent, parsed, cmd, sid, net, followUp, patched, calls, log, kv>>
  /\ UNCHANGED <<calculation, numbers>>

\* home, line 124: the handler's rejection reaches .catch
CatchRejection(r) ==
  /\ tpc[r] = "rejected"
  /\ tpc' = [tpc EXCEPT ![r] = "done"]
  /\ log' = [log EXCEPT ![r] = "error"]
  /\ UNCHANGED <<hpc, req, resp, sent, parsed, cmd, sid, net, followUp, patched, calls, kv>>
  /\ UNCHANGED <<calculation, numbers>>

\* the PATCH returns ok, returns a non-success status, or rejects
PatchOutcomes == {"ok", "notok", "neterr"}

\* what the chain logs: console.log("Followed up.") or a console.error
LogOf(o) == IF o = "ok" THEN "followed up" ELSE "error"

\* PatchReturns with a retry: a PATCH that did not succeed is issued again
PatchReturnsRetry(r) ==
  /\ tpc[r] = "patch"
  /\ \E o \in PatchOutcomes :
       /\ log' = [log EXCEPT ![r] = LogOf(o)]
       /\ IF o = "ok"
          THEN /\ tpc' = [tpc EXCEPT ![r] = "done"]
               /\ UNCHANGED patched
          ELSE /\ Len(patched[r]) < 3
               /\ patched' = [patched EXCEPT ![r] = Append(@, followUp[r])]
               /\ UNCHANGED tpc
  /\ UNCHANGED <<hpc, req, resp, sent, parsed, cmd, sid, net, followUp, calls, kv>>
  /\ UNCHANGED <<calculation, numbers>>

\* home, lines 115-124: the second .then callback, or .catch
PatchReturns(r) ==
  /\ tpc[r] = "patch"
  /\ tpc' = [tpc EXCEPT ![r] = "done"]
  /\ \E o \in PatchOutcomes :
       log' = [log EXCEPT ![r] = LogOf(o)]
  /\ UNCHANGED <<hpc, req, resp, sent, parsed, cmd, sid, net, followUp, patched, calls, kv>>
  /\ UNCHANGED <<calculation, numbers>>

Next ==
  \E r \in Reqs :
    \/ HomeValidate(r)
    \/ HomeVerify(r)
    \/ HomeRoute(r)
    \/ HttpSend(r)
    \/ KvGetReturns(r)
    \/ SheetResponds(r)
    \/ SheetReturns(r)
    \/ SpellResponds(r)
    \/ SpellReturns(r)
    \/ ThenFollowUp(r)
    \/ CatchRejection(r)
    \/ PatchReturns(r)

Spec == Init /\ [][Next]_vars

\* ------------------------------------------------------------- one request
\* home for one request that arrives on any cache, the whole request kept:
\* the command is recorded with all its options.
Caches == [Users -> {Null} \cup Sheets]

AckInit ==
  /\ hpc = [r \in Reqs |-> "idle"]
  /\ req = [r \in Reqs |-> NoReq]
  /\ resp = [r \in Reqs |-> NoResp]
  /\ sent = [r \in Reqs |-> FALSE]
  /\ parsed = [r \in Reqs |-> FALSE]
  /\ cmd = [r \in Reqs |-> NoCmd]
  /\ tpc = [r \in Reqs |-> "none"]
  /\ sid = [r \in Reqs |-> ""]
  /\ net = [r \in Reqs |-> NoNet]
  /\ followUp = [r \in Reqs |-> Pending]
  /\ patched = [r \in Reqs |-> <<>>]
  /\ calls = [r \in Reqs |-> NoCalls]
  /\ log = [r \in Reqs |-> ""]
  /\ kv \in Caches
  /\ calculation = NoCalc
  /\ numbers = <<>>

AckNext ==
  \/ HomeValidate(1)
  \/ HomeVerify(1)
  \/ HomeRouteFull(1)
  \/ HttpSend(1)
  \/ KvGetReturns(1)
  \/ SheetResponds(1)
  \/ SheetReturns(1)
  \/ SpellResponds(1)
  \/ SpellReturns(1)
  \/ ThenFollowUp(1)
  \/ CatchRejection(1)
  \/ PatchReturns(1)

AckSpec == AckInit /\ [][AckNext]_vars

\* The detached chain of request r under the event loop: an upstream call
\* that was issued returns (SheetResponds, SpellResponds, PatchReturns), and
\* a continuation whose promise has settled is run.  None of these steps,
\* once enabled, is disabled by anything but itself, so weak fairness is
\* what the event loop gives.
ChainFairness(r) ==
  /\ WF_vars(KvGetReturns(r))
  /\ WF_vars(SheetResponds(r))
  /\ WF_vars(SheetReturns(r))
  /\ WF_vars(SpellResponds(r))
  /\ WF_vars(SpellReturns(r))
  /\ WF_vars(ThenFollowUp(r))
  /\ WF_vars(CatchRejection(r))
  /\ WF_vars(PatchReturns(r))

\* the server writes the Response home returned
SendFairness(r) == WF_vars(HttpSend(r))

FairSpec == AckSpec /\ ChainFairness(1) /\ SendFairness(1)

\* ------------------------------------------------------------- the cache path
\* The roll, r and sync commands of verified requests on a cache that
\* earlier requests have filled: the store outlives the requests, so a
\* request may find any entry.

\* home, lines 82-100: a slash command roll, r or sync of a user is
\* dispatched and its handler runs to its first await
Dispatch(r) ==
  /\ cmd[r] = NoCmd
  /\ IF r = 1 THEN TRUE ELSE cmd[r - 1] # NoCmd
  /\ \E n \in {"roll", "r", "sync"}, u \in Users :
       \E o \in OptionsOf(n) :
         LET at == handleCommand(n, o)
         IN /\ FirstUser(u)
            /\ cmd' = [cmd EXCEPT ![r] = [name |-> n, uid |-> u,
                                          options |-> HandlerOptions(o)]]
            /\ Move(r, at)
            /\ calls' = [calls EXCEPT ![r] = CallsFor(@, at)]
  /\ UNCHANGED <<hpc, req, resp, sent, parsed, net, patched, log, kv>>
  /\ UNCHANGED <<calculation, numbers>>

CacheNext ==
  \E r \in Reqs :
    \/ Dispatch(r)
    \/ KvGetReturns(r)
    \/ SheetResponds(r)
    \/ SheetReturns(r)
    \/ ThenFollowUp(r)
    \/ PatchReturns(r)

CacheSpec == AckInit /\ [][CacheNext]_vars

\* ------------------------------------------------------------- stringifyCalculation
\* The calculation trees of the evaluator (EvalResult): a literal, a
\* variable, a dice roll with its pre-rendered text, or a binary operation.
MaxDepth == 2          \* binary nodes on a path of a tree at most
MaxRenders == 2        \* renderings of one tree

Leaves ==
  {[kind |-> "num", value |-> 3],
   [kind |-> "ident", value |-> -1],
   [kind |-> "roll", intermediateText |-> "[4, 2]"]}
Ops == {"+", "*"}

RECURSIVE Trees(_)
Trees(d) ==
  IF d = 0 THEN Leaves
  ELSE Leaves \cup {[kind |-> "binary", intermediate |-> [lhs |-> l, op |-> o, rhs |-> r]] :
                      l \in Trees(d - 1), o \in Ops, r \in Trees(d - 1)}

StringifyInit ==
  /\ hpc = [r \in Reqs |-> "idle"]
  /\ req = [r \in Reqs |-> NoReq]
  /\ resp = [r \in Reqs |-> NoResp]
  /\ sent = [r \in Reqs |-> FALSE]
  /\ parsed = [r \in Reqs |-> FALSE]
  /\ cmd = [r \in Reqs |-> NoCmd]
  /\ tpc = [r \in Reqs |-> "none"]
  /\ sid = [r \in Reqs |-> ""]
  /\ net = [r \in Reqs |-> NoNet]
  /\ followUp = [r \in Reqs |-> Pending]
  /\ patched = [r \in Reqs |-> <<>>]
  /\ calls = [r \in Reqs |-> NoCalls]
  /\ log = [r \in Reqs |-> ""]
  /\ kv = [u \in Users |-> Null]
  /\ calculation \in Trees(MaxDepth)
  /\ numbers = <<>>

\* handleRollCommand, line 185: const numbers = stringifyCalculation(calculation)
Stringify ==
  /\ Len(numbers) < MaxRenders
  /\ numbers' = Append(numbers, stringifyCalculation(calculation))
  /\ UNCHANGED <<hpc, req, resp, sent, parsed, cmd, tpc, sid, net, followUp, patched>>
  /\ UNCHANGED <<calls, log, kv, calculation>>

StringifyNext == Stringify

StringifySpec == StringifyInit /\ [][StringifyNext]_vars

\* ------------------------------------------------------------- properties
IsMessage(fu) == "content" \in DOMAIN fu
IsAck(rs) == rs.status = 200 /\ rs.type = 4
Dispatched(r) == cmd[r] # NoCmd
NoOutbound(r) == calls[r] = NoCalls /\ patched[r] = <<>>

\* ------------------------------------------------------------- src/bot.ts
\* The earlier handler, src/bot.ts, as far as the sheet cache goes: roll, r
\* and sync commands dispatched by a verified request, and the follow-up
\* chain.  It uses the variables cmd, tpc, sid, net, followUp, patched,
\* calls, log and kv as above; it has no spell command.

\* The body of a non-success answer of the sheet service, parsed by
\* res.json(): an error object, which has no id and no stats.
ErrorBody == [id |-> "undefined", stats |-> "undefined"]

\* What the sheet service answers: the fetch rejects, a non-success status
\* whose body is not JSON (Null) or is an error object, or a sheet.
BotSheetResponses ==
  {[k |-> "neterr", sheet |-> Null], [k |-> "notok", sheet |-> Null],
   [k |-> "notok", sheet |-> ErrorBody]}
  \cup {[k |-> "ok", sheet |-> sh] : sh \in Sheets}

\* syncSheetForUser of src/bot.ts: res.json() is stored and returned whatever
\* res.status is; Null when fetch or res.json() throws
botSyncSheetForUser(res) == IF res.k = "neterr" THEN Null ELSE res.sheet

\* handleCommand of src/bot.ts for another name: json({error}, 400)
BadRequest == [error |-> "bad request"]

\* handleRollCommand of src/bot.ts up to its first await
botHandleRollCommand(options) ==
  IF options.dice = Absent THEN Resolved(NoDiceMsg) ELSE At("kvget", Pending, "")

\* handleSyncCommand of src/bot.ts up to its first await
botHandleSyncCommand(options) ==
  IF options.id = Absent THEN At("kvget", Pending, "")
  ELSE At("sheet", Pending, options.id.value)

\* handleCommand of src/bot.ts
botHandleCommand(name, options) ==
  CASE name \in {"roll", "r"} -> botHandleRollCommand(options)
    [] name = "sync" -> botHandleSyncCommand(options)
    [] OTHER -> Resolved(BadRequest)

\* handleSyncCommand of src/bot.ts from the sheet it awaited on (the sheet's
\* name is not told from its id)
botSyncResult(options, sheet) ==
  IF sheet = Null
  THEN (IF options.id # Absent THEN SyncFailedIdMsg ELSE SyncFailedNoIdMsg)
  ELSE SyncedMsg(sheet)

\* the handler of src/bot.ts from the sheet it awaited on; a roll whose
\* sheet has no abilityScores throws on Object.entries(undefined)
botAfterSheet(c, sheet, outcome) ==
  IF c.name = "sync" THEN Resolved(botSyncResult(c.options, sheet))
  ELSE IF sheet = ErrorBody THEN Rejected
  ELSE Resolved(rollResult(sheet, outcome))

\* home of src/bot.ts, lines 74-82: a verified command of a user is
\* dispatched and its handler runs to its first await
BotDispatch(r) ==
  /\ cmd[r] = NoCmd
  /\ IF r = 1 THEN TRUE ELSE cmd[r - 1] # NoCmd
  /\ \E n \in CommandNames \ {"spell"}, u \in Users :
       \E o \in OptionsOf(n) :
         LET at == botHandleCommand(n, o)
         IN /\ FirstUser(u)
            /\ cmd' = [cmd EXCEPT ![r] = [name |-> n, uid |-> u,
                                          options |-> HandlerOptions(o)]]
            /\ Move(r, at)
            /\ calls' = [calls EXCEPT ![r] = CallsFor(@, at)]
  /\ UNCHANGED <<hpc, req, resp, sent, parsed, net, patched, log, kv>>
  /\ UNCHANGED <<calculation, numbers>>

\* getSyncedSheetForUser of src/bot.ts
BotKvGetReturns(r) ==
  /\ tpc[r] = "kvget"
  /\ LET doc == kv[cmd[r].uid]
     IN IF doc = Null
        THEN /\ \E o \in EvalOutcomes : Move(r, botAfterSheet(cmd[r], Null, o))
             /\ UNCHANGED calls
        ELSE /\ Move(r, At("sheet", Pending, doc.id))
             /\ calls' = [calls EXCEPT ![r].get = @ + 1]
  /\ UNCHANGED <<hpc, req, resp, sent, parsed, cmd, net, patched, log, kv>>
  /\ UNCHANGED <<calculation, numbers>>

\* the sheet service answers the GET of src/bot.ts, line 296
BotSheetResponds(r) ==
  /\ tpc[r] = "sheet"
  /\ net[r] = NoNet
  /\ \E res \in BotSheetResponses : net' = [net EXCEPT ![r] = res]
  /\ UNCHANGED <<hpc, req, resp, sent, parsed, cmd, tpc, sid, followUp, patched, calls, log, kv>>
  /\ UNCHANGED <<calculation, numbers>>

\* syncSheetForUser of src/bot.ts, lines 297-303, and the handler that
\* awaited it
BotSheetReturns(r) ==
  /\ tpc[r] = "sheet"
  /\ net[r] # NoNet
  /\ net' = [net EXCEPT ![r] = NoNet]
  /\ LET sheet == botSyncSheetForUser(net[r])
     IN /\ IF sheet # Null
           THEN /\ kv' = [kv EXCEPT ![cmd[r].uid] = sheet]
                /\ calls' = [calls EXCEPT ![r].kvSet = @ + 1]
           ELSE UNCHANGED <<kv, calls>>
        /\ \E o \in EvalOutcomes : Move(r, botAfterSheet(cmd[r], sheet, o))
  /\ UNCHANGED <<hpc, req, resp, sent, parsed, cmd, patched, log>>
  /\ UNCHANGED <<calculation, numbers>>

\* home of src/bot.ts, lines 85-102: the first .then callback reads
\* resData.data.content (a TypeError on the 400 body, which has no data)
\* and PATCHes { content }
BotThenFollowUp(r) ==
  /\ tpc[r] = "resolved"
  /\ IF IsMessage(followUp[r])
     THEN /\ tpc' = [tpc EXCEPT ![r] = "patch"]
          /\ patched' = [patched EXCEPT ![r] = Append(@, Content(followUp[r].content))]
          /\ UNCHANGED log
     ELSE /\ tpc' = [tpc EXCEPT ![r] = "done"]
          /\ log' = [log EXCEPT ![r] = "error"]
          /\ UNCHANGED patched
  /\ UNCHANGED <<hpc, req, resp, sent, parsed, cmd, sid, net, followUp, calls, kv>>
  /\ UNCHANGED <<calculation, numbers>>

\* src/bot.ts, lines 103-111, are lines 115-124 of src/unnamed/part_002
BotNext ==
  \E r \in Reqs :
    \/ BotDispatch(r)
    \/ BotKvGetReturns(r)
    \/ BotSheetResponds(r)
    \/ BotSheetReturns(r)
    \/ BotThenFollowUp(r)
    \/ CatchRejection(r)
    \/ PatchReturns(r)

BotSpec == Init /\ [][BotNext]_vars

\* ------------------------------------------------------------- claims
\* the step in which syncSheetForUser of r returns from a GET that failed
SheetFailStep(r) ==
  /\ tpc[r] = "sheet"
  /\ net[r].k \in {"neterr", "notok"}
  /\ tpc'[r] # "sheet"

\* C11: when the sheet GET inside syncSheetForUser fails (network error or
\* non-success status), the call returns absent (a sync answers with its
\* failure message, a roll gets no variables) and the cache is exactly what
\* it was, for sync with id, sync without id and roll revalidation, in
\* src/unnamed/part_002 (Spec) and in src/bot.ts (BotSpec).
C11_FailedFetchKeepsCache ==
  [][\A r \in Reqs :
       SheetFailStep(r) =>
         /\ kv' = kv
         /\ calls'[r].kvSet = calls[r].kvSet
         /\ tpc'[r] = "resolved"
         /\ followUp'[r] \in
              (IF cmd[r].name = "sync"
               THEN {IF cmd[r].options.id # Absent THEN SyncFailedIdMsg
                     ELSE SyncFailedNoIdMsg}
               ELSE {rollResult(Null, o) : o \in EvalOutcomes})]_vars

\* C1: for every dispatched command the deferred ack has been sent before the
\* follow-up PATCH for its token is issued.
C1_AckBeforeFollowUp ==
  \A r \in Reqs : patched[r] # <<>> => sent[r] /\ IsAck(resp[r])

\* C2: the number of follow-up PATCH calls issued for the token of any
\* request never exceeds one, whatever the handler's outcome and whatever
\* the other requests do.
C2_AtMostOneFollowUp ==
  \A r \in Reqs : Len(patched[r]) <= 1

\* two requests handled concurrently each got their one PATCH, one of which
\* failed and was not retried
C2_Witness ==
  \E r1, r2 \in Reqs :
    /\ r1 # r2
    /\ Len(patched[r1]) = 1 /\ tpc[r1] = "done" /\ log[r1] = "error"
    /\ Len(patched[r2]) = 1 /\ tpc[r2] = "patch"

\* C3: a request answered with a 4xx status has caused no side effect: no
\* handler was dispatched, no cache read or write and no outbound call made.
C3_RejectedNoSideEffects ==
  \A r \in Reqs :
    (resp[r].status >= 400 /\ resp[r].status <= 499)
      => ~Dispatched(r) /\ NoOutbound(r)

\* C4: a request whose signature header is missing or does not verify is
\* answered 401, its body is never JSON-parsed, and no cache write or
\* outbound call occurs.
C4_BadSignature401 ==
  \A r \in Reqs :
    (/\ hpc[r] \in {"returned", "threw"}
     /\ (req[r].sig = Missing \/ verifySignature(req[r].sig) # "valid"))
      => resp[r].status = 401 /\ ~parsed[r] /\ NoOutbound(r)

\* C5: when the dispatched handler throws, the rejection is caught and
\* logged, no follow-up PATCH is issued, and the HTTP response of the
\* interaction is still the 200 deferred ack.
C5_HandlerThrowIsolated ==
  \A r \in Reqs :
    followUp[r] = Threw
      => /\ patched[r] = <<>>
         /\ tpc[r] \in {"rejected", "done"}
         /\ (tpc[r] = "done" => log[r] = "error")
         /\ IsAck(resp[r])

\* C6: a command whose name is none of roll, r, sync, spell resolves to "no
\* follow-up" and no follow-up PATCH is sent for its token.
C6_UnknownNameNoFollowUp ==
  \A r \in Reqs :
    (Dispatched(r) /\ cmd[r].name \notin {"roll", "r", "sync", "spell"})
      => followUp[r] = Null /\ patched[r] = <<>>

\* the step in which handleSpellCommand of r consumes the service's data
SpellDataStep(r) ==
  /\ tpc[r] = "spell"
  /\ net[r].k = "ok"
  /\ tpc'[r] # "spell"

\* C7: no exact-id hit and exactly one fuzzy hit: the handler resolves to one
\* image embed for that hit's id.
C7_SingleFuzzyHitEmbed ==
  [][\A r \in Reqs :
       (SpellDataStep(r) /\ net[r].spell = "" /\ Len(net[r].spells) = 1)
         => /\ tpc'[r] = "resolved"
            /\ followUp'[r] =
                 [content |-> "",
                  embeds |-> <<"https://fivee.co/snippets/spell-card/" \o net[r].spells[1]>>,
                  components |-> <<>>]]_vars

\* C8: no exact-id hit and zero fuzzy hits: the handler resolves (does not
\* throw) to the "not found" follow-up.
C8_NoHitNotFound ==
  [][\A r \in Reqs :
       (SpellDataStep(r) /\ net[r].spell = "" /\ Len(net[r].spells) = 0)
         => /\ tpc'[r] = "resolved"
            /\ followUp'[r] = SpellNotFoundMsg]_vars

\* C9: no exact-id hit and N >= 2 fuzzy hits with distinct ids: the follow-up
\* is a disambiguation message with exactly N selectors, one per candidate in
\* the service's order, selector i tagged "btn-" + the first 8 characters of
\* the token + "-" + the id of candidate i, the N tags pairwise distinct; an
\* exact-id hit yields the image embed of that spell whatever the fuzzy hits.
C9_Disambiguation ==
  [][\A r \in Reqs :
       SpellDataStep(r) =>
         LET hits == net[r].spells
             n == Len(hits)
             fu == followUp'[r]
         IN IF net[r].spell # ""
            THEN /\ tpc'[r] = "resolved"
                 /\ fu = [content |-> "",
                          embeds |-> <<"https://fivee.co/snippets/spell-card/" \o net[r].spell>>,
                          components |-> <<>>]
            ELSE n >= 2 =>
                 /\ tpc'[r] = "resolved"
                 /\ fu.embeds = <<>>
                 /\ Len(fu.components) = n + 1
                 /\ fu.components[1].type = 10
                 /\ \A i \in 1..n :
                      /\ fu.components[i + 1].type = 2
                      /\ fu.components[i + 1].customId =
                           "btn-" \o SubSeq(Token(r), 1, 8) \o "-" \o hits[i]
                 /\ \A i, j \in 1..n :
                      i # j => fu.components[i + 1].customId # fu.components[j + 1].customId]_vars

\* a disambiguation message with two selectors is ready to be PATCHed
C9_Witness ==
  \E r \in Reqs :
    /\ tpc[r] = "resolved"
    /\ IsMessage(followUp[r])
    /\ Len(followUp[r].components) = 3
    /\ followUp[r].components[2].type = 2

\* C10: sync without an id option by a user who has no cache entry: the
\* handler makes no call to the sheet service, resolves to the "Make sure
\* your sheet still exists and is public" failure, and the cache is
\* unchanged.
C10_SyncNoIdNoEntry ==
  [][\A r \in Reqs :
       (/\ tpc[r] = "kvget"
        /\ cmd[r].name = "sync"
        /\ cmd[r].options.id = Absent
        /\ kv[cmd[r].uid] = Null
        /\ tpc'[r] # "kvget")
         => /\ tpc'[r] = "resolved"
            /\ followUp'[r] =
                 Content("Failed to sync. Make sure your sheet still exists and is public.")
            /\ calls'[r].get = 0
            /\ calls'[r].kvSet = 0
            /\ kv' = kv]_vars

\* such a sync has failed while another user's entry exists and is kept
C10_Witness ==
  \E r \in Reqs :
    /\ cmd[r].name = "sync"
    /\ cmd[r].options.id = Absent
    /\ tpc[r] = "resolved"
    /\ followUp[r] = SyncFailedNoIdMsg
    /\ calls[r].get = 0
    /\ kv[cmd[r].uid] = Null
    /\ \E u \in Users : kv[u] # Null

\* request q is a sync id=x of user u that completed with the success
\* confirmation
SyncedOk(q, u, x) ==
  /\ cmd[q].name = "sync"
  /\ cmd[q].uid = u
  /\ cmd[q].options.id = Opt(OPT_STRING, x)
  /\ tpc[q] \in {"resolved", "patch", "done"}
  /\ IsMessage(followUp[q])
  /\ followUp[q] \notin {SyncFailedIdMsg, SyncFailedNoIdMsg}

\* C12: after a successful sync id=X of user u, a roll of u with no other
\* request of u in between revalidates by fetching id X, hands the evaluator
\* exactly the stats of the record that fetch returned, and leaves the
\* entry of u with id X; a roll of a user with no entry gets no variables.
C12_SyncThenRoll ==
  [][\A r \in Reqs :
       cmd[r].name \in {"roll", "r"} =>
         LET u == cmd[r].uid
         IN /\ (tpc[r] = "kvget" /\ tpc'[r] # "kvget" /\ kv[u] = Null)
                 => /\ tpc'[r] = "resolved"
                    /\ followUp'[r] \in {rollResult(Null, o) : o \in EvalOutcomes}
            /\ \A q \in Reqs \ {r}, x \in SheetIds :
                 SyncedOk(q, u, x) =>
                   /\ (tpc[r] = "kvget" /\ tpc'[r] # "kvget")
                        => tpc'[r] = "sheet" /\ sid'[r] = x
                   /\ (tpc[r] = "sheet" /\ net[r].k = "ok" /\ tpc'[r] # "sheet")
                        => /\ followUp'[r] \in
                                {rollResult(net[r].sheet, o) : o \in EvalOutcomes}
                           /\ kv'[u].id = x]_vars

\* C13: a roll or r with a string dice option on which the evaluator throws:
\* the handler resolves (never rejects) with a diagnostic text, exactly one
\* follow-up PATCH carrying it is attempted, after the deferred ack was
\* sent, and the HTTP response is the 200 deferred ack.
C13_EvaluatorThrowDiagnosed ==
  \A r \in Reqs :
    (/\ cmd[r].name \in {"roll", "r"}
     /\ followUp[r] \in {RollDiagnosticMsg, RollUnexpectedMsg})
      => /\ tpc[r] \in {"resolved", "patch", "done"}
         /\ IsAck(resp[r])
         /\ (tpc[r] = "resolved" => patched[r] = <<>>)
         /\ (tpc[r] \in {"patch", "done"} => patched[r] = <<followUp[r]>> /\ sent[r])

\* C14: every accepted command (no whisper option, or one of boolean type)
\* is answered with the deferred ack: status 200, type 4, the placeholder
\* content, the ephemeral flag iff the whisper option is the boolean true or
\* the command is sync, the components flag iff the command is spell;
\* whatever the cache held and whatever the upstream services answered.
C14_AckFromRequestOnly ==
  \A r \in Reqs :
    LET w == cmd[r].options.whisper
    IN (Dispatched(r) /\ (w = Absent \/ w.type = 5))
         => resp[r] =
              [status |-> 200, type |-> 4, content |-> "-# _Working on it..._",
               flags |-> (IF w = [type |-> 5, value |-> "true"] \/ cmd[r].name = "sync"
                          THEN 64 ELSE 0)
                         + (IF cmd[r].name = "spell" THEN 32768 ELSE 0)]

\* a sync whispered false was acked as ephemeral on a cache that held an
\* entry, and its fetch has failed since
C14_Witness ==
  \E r \in Reqs :
    /\ cmd[r].name = "sync"
    /\ cmd[r].options.whisper = Opt(OPT_BOOLEAN, "false")
    /\ resp[r].flags = Ephemeral
    /\ sent[r]
    /\ kv[cmd[r].uid] # Null
    /\ followUp[r] = SyncFailedNoIdMsg

\* C15: a request with a valid signature whose payload is a ping is answered
\* 200 with exactly the ping-ack body {type: 1}; no handler is dispatched, no
\* cache read or write occurs and no outbound call is made for it.
C15_PingAckOnly ==
  \A r \in Reqs :
    req[r].kind = 1
      => /\ verifySignature(req[r].sig) = "valid"
         /\ resp[r] = [status |-> 200, type |-> 1, content |-> "", flags |-> 0]
         /\ ~Dispatched(r)
         /\ tpc[r] = "none"
         /\ NoOutbound(r)

\* a ping was answered while a command of another request was being worked on
C15_Witness ==
  \E r, q \in Reqs :
    /\ req[r].kind = PING
    /\ sent[r]
    /\ resp[r] = PingAck
    /\ tpc[q] = "sheet"

\* the chain of r has ended: one PATCH carrying the handler's final payload
\* was attempted and has returned, or the handler threw and that was logged
Terminal(r) ==
  /\ tpc[r] = "done"
  /\ \/ followUp[r] # Threw /\ patched[r] = <<followUp[r]>>
     \/ followUp[r] = Threw /\ patched[r] = <<>> /\ log[r] = "error"

\* C16: if every upstream call returns and the detached continuation is
\* scheduled fairly, every command that received the deferred ack eventually
\* reaches a terminal state: exactly one follow-up PATCH carrying the
\* handler's final payload was attempted, or a handler exception was logged.
C16_AckedEventuallyTerminal ==
  \A r \in Reqs : (sent[r] /\ IsAck(resp[r])) ~> Terminal(r)

\* an acked spell command whose handler threw has ended with the error logged
C16_Witness ==
  \E r \in Reqs :
    /\ sent[r] /\ IsAck(resp[r])
    /\ cmd[r].name = "spell"
    /\ Terminal(r)
    /\ followUp[r] = Threw

\* C17: the id stored in a user's cache entry is the sheet id that was passed
\* to the fetch whose result was written last for that user (by sync with
\* id, sync without id or roll revalidation), whatever record the sheet
\* service returned: every write of an entry stores the id it fetched by.
C17_StoredIdIsFetchedId ==
  [][\A r \in Reqs :
       (tpc[r] = "sheet" /\ tpc'[r] # "sheet" /\ calls'[r].kvSet > calls[r].kvSet)
         => kv'[cmd[r].uid].id = sid[r]]_vars

\* C18: within one command invocation every external call is attempted at
\* most once and never issued again after a failure: at most one sheet GET
\* (roll, r, sync), exactly one spell POST for a spell with a string name
\* option and none otherwise, at most one cache read, and at most one
\* follow-up PATCH, also when the PATCH did not succeed.
C18_NoRetries ==
  \A r \in Reqs :
    /\ calls[r].get <= 1
    /\ calls[r].kvGet <= 1
    /\ calls[r].kvSet <= calls[r].get
    /\ calls[r].post =
         (IF cmd[r].name = "spell" /\ cmd[r].options.name.type = 3 THEN 1 ELSE 0)
    /\ (cmd[r].name = "spell" => calls[r].get = 0)
    /\ Len(patched[r]) <= 1
    /\ (tpc[r] = "done" /\ followUp[r] # Threw => Len(patched[r]) = 1)

\* a sync whose one GET failed and whose one PATCH failed has ended, and a
\* spell command made its one POST
C18_Witness ==
  \E r, q \in Reqs :
    /\ cmd[r].name = "sync"
    /\ calls[r].get = 1
    /\ followUp[r] = SyncFailedIdMsg
    /\ tpc[r] = "done"
    /\ log[r] = "error"
    /\ Len(patched[r]) = 1
    /\ cmd[q].name = "spell"
    /\ calls[q].post = 1
    /\ tpc[q] = "done"

RECURSIVE InOrder(_)
\* the leaves' texts and the operators of a tree, from left to right
InOrder(t) ==
  CASE t.kind \in {"num", "ident"} -> <<ToString(t.value)>>
    [] t.kind = "roll" -> <<t.intermediateText>>
    [] OTHER -> InOrder(t.intermediate.lhs) \o <<t.intermediate.op>>
                \o InOrder(t.intermediate.rhs)

RECURSIVE Join(_)
\* the texts of a non-empty sequence, one space between neighbours
Join(ts) == IF Len(ts) = 1 THEN ts[1] ELSE ts[1] \o " " \o Join(Tail(ts))

\* C19: stringifyCalculation is a pure function of the tree: a rendering
\* changes no state, rendering again gives the same text; a literal or
\* variable renders as the text of its value, a dice roll as its
\* intermediate text unchanged, a binary node as render(lhs), a space, the
\* operator, a space, render(rhs), lhs left of rhs and nothing added: the
\* leaves and operators in order, one space apart, no parentheses.
C19_StringifyPure ==
  [][numbers' # numbers =>
       LET text == numbers'[Len(numbers')]
       IN /\ numbers' = Append(numbers, text)
          /\ UNCHANGED <<hpc, req, resp, sent, parsed, cmd, tpc, sid, net,
                         followUp, patched, calls, log, kv, calculation>>
          /\ (numbers # <<>> => text = numbers[1])
          /\ (calculation.kind \in {"num", "ident"} => text = ToString(calculation.value))
          /\ (calculation.kind = "roll" => text = calculation.intermediateText)
          /\ (calculation.kind = "binary" =>
                /\ text = Join(InOrder(calculation.intermediate.lhs)) \o " "
                          \o calculation.intermediate.op \o " "
                          \o Join(InOrder(calculation.intermediate.rhs))
                /\ text = Join(InOrder(calculation)))]_vars

\* a product of a sum and a dice roll was rendered twice
C19_Witness ==
  /\ Len(numbers) = 2
  /\ calculation.kind = "binary"
  /\ calculation.intermediate.op = "*"
  /\ calculation.intermediate.lhs.kind = "binary"
  /\ calculation.intermediate.rhs.kind = "roll"
  /\ numbers[2] = "3 + -1 * [4, 2]"

\* the step is one of the handling of request r
StepOf(r) ==
  \/ hpc'[r] # hpc[r]
  \/ sent'[r] # sent[r]
  \/ tpc'[r] # tpc[r]
  \/ net'[r] # net[r]

\* C20: a step of the handling of a request of user u (a command, a ping or
\* a rejected request, in any interleaving) leaves the cache entry of every
\* other user as it was; a spell command and a ping change no entry at all;
\* no step removes an entry; and the variables of a roll come from the
\* record fetched by the id of the roll's own user's entry.
C20_OtherUsersUntouched ==
  [][\A r \in Reqs :
       StepOf(r) =>
         /\ \A v \in Users : v # cmd'[r].uid => kv'[v] = kv[v]
         /\ (cmd'[r].name = "spell" \/ req'[r].kind = 1) => kv' = kv
         /\ \A v \in Users : kv[v] # Null => kv'[v] # Null
         /\ (cmd[r].name \in {"roll", "r"} /\ tpc[r] = "kvget" /\ tpc'[r] = "sheet")
              => sid'[r] = kv[cmd[r].uid].id
         /\ (cmd[r].name \in {"roll", "r"} /\ tpc[r] = "sheet" /\ tpc'[r] = "resolved")
              => followUp'[r] \in
                   {rollResult(IF net[r].k = "ok" THEN net[r].sheet ELSE Null, o) :
                      o \in EvalOutcomes}]_vars

\* both users hold an entry, each written by a request of its own user, and
\* the two entries differ
C20_Witness ==
  \E r, q \in Reqs :
    /\ cmd[r].uid = "u1" /\ calls[r].kvSet = 1
    /\ cmd[q].uid = "u2" /\ calls[q].kvSet = 1
    /\ kv["u1"] # Null
    /\ kv["u2"] # Null
    /\ kv["u1"] # kv["u2"]

\* C21: once a sync id=Y of user u has resolved with the success
\* confirmation and the entry of u holds id Y, a roll or a sync without id
\* of u that was started before or runs concurrently leaves id Y in the
\* entry when it rewrites it, the sheet service answering each fetch with
\* the record of the id asked for.
C21_SyncedIdStays ==
  [][\A q, r \in Reqs, y \in SheetIds :
       (/\ q # r
        /\ tpc[r] = "sheet" /\ tpc'[r] # "sheet"
        /\ cmd[r].options.id = Absent
        /\ net[r].k = "ok" /\ net[r].sheet.id = sid[r]
        /\ SyncedOk(q, cmd[r].uid, y)
        /\ kv[cmd[r].uid].id = y)
         => kv'[cmd[r].uid].id = y]_vars

====
